---- MODULE Spec2Model ----
(***************************************************************************)
(* Model of monitor.py: a single-instance poll loop that fetches product   *)
(* pages, parses a stock count and sends or edits chat notifications on    *)
(* stock transitions.                                                      *)
(***************************************************************************)
EXTENDS FiniteSets, Integers, Sequences, TLC

(***************************************************************************)
(* Bounds of the model.                                                    *)
(***************************************************************************)
\* message identifiers the chat hands out before every further send fails
MaxMsgs == 2
\* largest retry count fetch_html is called with in FetchSpec
MaxRetries == 3
\* most fragments a page handed to parse_stock in ParseSpec is made of
MaxParts == 3

(***************************************************************************)
(* Values.                                                                 *)
(***************************************************************************)
\* Python None as a message id (falsy, never a real chat message id)
NoneId == 0
\* a key that is missing from the message_ids dict
AbsentId == 0 - 1
\* default of fetch_html's retries parameter
DefaultRetries == 3
\* default of config.get('check_interval', 600)
DefaultInterval == 600

\* stock quantities: parse_stock returns an int, float('inf') or None
IntQty(n) == [kind |-> "int", n |-> n]
InfQty == [kind |-> "inf", n |-> 0]
NoneQty == [kind |-> "none", n |-> 0]

\* stock_quantity > 0 (float('inf') > 0 is True)
GtZero(q) == q.kind = "inf" \/ (q.kind = "int" /\ q.n > 0)
\* stock_quantity == 0
EqZero(q) == q.kind = "int" /\ q.n = 0

(***************************************************************************)
(* fetch_html: the attempts are driven by a script, script[i] being what   *)
(* the i-th request does if it is made.                                    *)
(***************************************************************************)
AttemptKinds == {"ok", "status", "exc"}

\* the html returned by fetch_html is a text or None
NoneHtml == [some |-> FALSE, text |-> <<>>]
SomeHtml(t) == [some |-> TRUE, text |-> t]

RECURSIVE FetchLoopNoCatch(_, _, _, _)
\* fetch_html without the "except Exception": a transport exception ends it
FetchLoopNoCatch(script, retries, attempt, sleeps) ==
    IF attempt >= retries
    THEN [html |-> NoneHtml, attempts |-> attempt, sleeps |-> sleeps, raised |-> FALSE]
    ELSE LET r == script[attempt + 1] IN
         IF r.kind = "ok"
         THEN [html |-> SomeHtml(r.text), attempts |-> attempt + 1,
               sleeps |-> sleeps, raised |-> FALSE]
         ELSE IF r.kind = "status"
         THEN FetchLoopNoCatch(script, retries, attempt + 1, sleeps)
         ELSE [html |-> NoneHtml, attempts |-> attempt + 1, sleeps |-> sleeps,
               raised |-> TRUE]

RECURSIVE FetchLoop(_, _, _, _)
\* one iteration of "for attempt in range(retries)"; attempt counts from 0,
\* sleeps counts the backoff waits made so far
FetchLoop(script, retries, attempt, sleeps) ==
    IF attempt >= retries
    THEN [html |-> NoneHtml, attempts |-> attempt, sleeps |-> sleeps, raised |-> FALSE]
    ELSE LET r == script[attempt + 1] IN
         IF r.kind = "ok"
         THEN [html |-> SomeHtml(r.text), attempts |-> attempt + 1,
               sleeps |-> sleeps, raised |-> FALSE]
         ELSE IF r.kind = "status"
         THEN FetchLoop(script, retries, attempt + 1, sleeps)
         ELSE FetchLoop(script, retries, attempt + 1, sleeps + 1)

FetchHtml(script, retries) == FetchLoop(script, retries, 0, 0)

(***************************************************************************)
(* parse_stock.  A page is a sequence of tokens: digits, whitespace, the   *)
(* phrase "in stock" in some letter case, tags, and other words.           *)
(***************************************************************************)
DigitTokens == {"0", "1", "2", "5"}
SpaceTokens == {" ", "\n"}
\* re.IGNORECASE: every letter case of the literal "in stock" matches
InStockTokens == {"in stock", "In Stock", "IN STOCK"}
TagTokens == {"<b>", "</b>"}

DigitVal(t) == CASE t = "0" -> 0 [] t = "1" -> 1 [] t = "2" -> 2 [] t = "5" -> 5

\* BeautifulSoup(html, 'html.parser').get_text(): the text without the tags
GetText(html) == SelectSeq(html, LAMBDA t : t \notin TagTokens)

RECURSIVE DigitsEnd(_, _)
\* the first index >= i that is not a digit (greedy \d+)
DigitsEnd(text, i) ==
    IF i <= Len(text) /\ text[i] \in DigitTokens THEN DigitsEnd(text, i + 1) ELSE i

RECURSIVE SpacesEnd(_, _)
\* the first index >= i that is not whitespace (greedy \s+)
SpacesEnd(text, i) ==
    IF i <= Len(text) /\ text[i] \in SpaceTokens THEN SpacesEnd(text, i + 1) ELSE i

\* (\d+)\s+in stock matches starting at index i
MatchAt(text, i) ==
    LET j == DigitsEnd(text, i)
        k == SpacesEnd(text, j)
    IN  j > i /\ k > j /\ k <= Len(text) /\ text[k] \in InStockTokens

\* re.search: the leftmost start of a match, 0 when there is none
SearchStart(text) ==
    IF \E i \in 1..Len(text) : MatchAt(text, i)
    THEN CHOOSE i \in 1..Len(text) :
            MatchAt(text, i) /\ \A h \in 1..(i - 1) : ~MatchAt(text, h)
    ELSE 0

RECURSIVE DigitsValue(_, _, _, _)
\* int(group(1)): the decimal value of text[i..j-1]
DigitsValue(text, i, j, acc) ==
    IF i >= j THEN acc ELSE DigitsValue(text, i + 1, j, acc * 10 + DigitVal(text[i]))

\* out_of_stock_text in soup.get_text(): substring test
IsSubstring(marker, text) ==
    \E s \in 0..(Len(text) - Len(marker)) :
        \A i \in 1..Len(marker) : text[s + i] = marker[i]

ParseStockMarkerFirst(html, out_of_stock_text, raises) ==
    IF raises THEN NoneQty
    ELSE LET text == GetText(html)
             s == SearchStart(text)
         IN  IF IsSubstring(out_of_stock_text, text) THEN IntQty(0)
             ELSE IF s > 0 THEN IntQty(DigitsValue(text, s, DigitsEnd(text, s), 0))
             ELSE InfQty

\* parse_stock; raises says that the parsing library raised an exception
ParseStock(html, out_of_stock_text, raises) ==
    IF raises THEN NoneQty
    ELSE LET text == GetText(html)
             s == SearchStart(text)
         IN  IF s > 0 THEN IntQty(DigitsValue(text, s, DigitsEnd(text, s), 0))
             ELSE IF IsSubstring(out_of_stock_text, text) THEN IntQty(0)
             ELSE InfQty

\* check_stock
CheckStock(script, out_of_stock_text, raises) ==
    LET f == FetchHtml(script, DefaultRetries) IN
    IF ~f.html.some THEN NoneQty
    ELSE ParseStock(f.html.text, out_of_stock_text, raises)

(***************************************************************************)
(* Configuration: what load_config returns in one cycle.                   *)
(***************************************************************************)
Procs == {1, 2}
Names == {"A", "B"}
Urls == {"u1", "u2"}
Keys == {<<"A", "u1">>, <<"A", "u2">>, <<"B", "u1">>}

\* merchant.get('out_of_stock_text', '缺货'): the default marker
DefaultMarker == <<"quehuo">>
CustomMarker == <<"Sold", " ", "Out">>

\* check_interval is missing from the configuration file
AbsentInterval == 0

Merchant(name, marker, urls) ==
    [name |-> name, out_of_stock_text |-> marker, stock_urls |-> urls]

CfgSolo ==
    [telegram_token |-> TRUE, check_interval |-> AbsentInterval,
     merchants |-> <<Merchant("A", DefaultMarker, <<"u1">>)>>]
\* two merchants list the same URL
CfgShared ==
    [telegram_token |-> TRUE, check_interval |-> 60,
     merchants |-> <<Merchant("A", DefaultMarker, <<"u1">>),
                     Merchant("B", CustomMarker, <<"u1">>)>>]
\* a merchant without targets, then one with two targets
CfgTwo ==
    [telegram_token |-> TRUE, check_interval |-> 60,
     merchants |-> <<Merchant("B", DefaultMarker, <<>>),
                     Merchant("A", DefaultMarker, <<"u1", "u2">>)>>]
\* the configuration file has no telegram_token
CfgNoToken ==
    [telegram_token |-> FALSE, check_interval |-> AbsentInterval,
     merchants |-> <<Merchant("A", DefaultMarker, <<"u1", "u2">>)>>]
\* no configuration loaded (before the first load_config of a process)
NoConfig ==
    [telegram_token |-> FALSE, check_interval |-> AbsentInterval, merchants |-> <<>>]

Configs == {CfgSolo, CfgShared, CfgTwo, CfgNoToken}

\* the pages the monitored sites serve
Page5 == <<"5", " ", "in stock">>
Page12 == <<"<b>", "1", "2", "</b>", "\n", "IN STOCK">>
PageOut == <<"now", " ", "quehuo">>
PageSoldOut == <<"Sold", " ", "Out">>
PageNeither == <<"welcome">>
Pages == {Page5, PageOut, PageSoldOut}

RECURSIVE TargetsOf(_, _)
\* the stock entries of one merchant, in order, each with its merchant's fields
TargetsOf(m, i) ==
    IF i > Len(m.stock_urls) THEN <<>>
    ELSE <<[name |-> m.name, out_of_stock_text |-> m.out_of_stock_text,
            url |-> m.stock_urls[i]]>> \o TargetsOf(m, i + 1)

RECURSIVE TargetsFrom(_, _)
\* "for merchant in config['merchants']: for stock in merchant['stock_urls']":
\* the targets of a configuration in the order the nested loops visit them
TargetsFrom(merchants, i) ==
    IF i > Len(merchants) THEN <<>>
    ELSE TargetsOf(merchants[i], 1) \o TargetsFrom(merchants, i + 1)

Targets(cfg) == TargetsFrom(cfg.merchants, 1)

CheckIntervalNoDefault(cfg) == cfg.check_interval

\* config.get('check_interval', 600)
CheckInterval(cfg) ==
    IF cfg.check_interval = AbsentInterval THEN DefaultInterval ELSE cfg.check_interval

(***************************************************************************)
(* send_notification.  out is what composition and the chat API do in this *)
(* call; newId is the identifier the chat gives the next message.          *)
(***************************************************************************)
NotifyOutcomes == {"ok", "compose_exc", "api_exc", "bad_request"}

\* raised: the call propagated an exception; ret: the returned message id;
\* api, apiId: the chat API call made and the message it is about;
\* delivered: the chat API call succeeded
NotifyResult(raised, ret, api, apiId, delivered) ==
    [raised |-> raised, ret |-> ret, api |-> api, apiId |-> apiId,
     delivered |-> delivered]

SendNotificationEditsKnown(token, stock_quantity, message_id, out, newId) ==
    IF ~token
    THEN NotifyResult(TRUE, NoneId, "none", NoneId, FALSE)
    ELSE IF out = "compose_exc"
    THEN NotifyResult(FALSE, NoneId, "none", NoneId, FALSE)
    ELSE IF message_id # NoneId
    THEN NotifyResult(FALSE, NoneId, "edit", message_id, out = "ok")
    ELSE IF GtZero(stock_quantity)
    THEN IF out = "ok"
         THEN NotifyResult(FALSE, newId, "send", newId, TRUE)
         ELSE NotifyResult(FALSE, NoneId, "send", NoneId, FALSE)
    ELSE NotifyResult(FALSE, NoneId, "none", NoneId, FALSE)

SendNotification(token, stock_quantity, message_id, out, newId) ==
    IF ~token
    \* Bot(token=config['telegram_token']) is outside the try block
    THEN NotifyResult(TRUE, NoneId, "none", NoneId, FALSE)
    ELSE IF out = "compose_exc"
    THEN NotifyResult(FALSE, NoneId, "none", NoneId, FALSE)
    ELSE IF GtZero(stock_quantity)
    THEN IF out = "ok"
         THEN NotifyResult(FALSE, newId, "send", newId, TRUE)
         ELSE NotifyResult(FALSE, NoneId, "send", NoneId, FALSE)
    ELSE IF message_id # NoneId
    THEN NotifyResult(FALSE, NoneId, "edit", message_id, out = "ok")
    ELSE NotifyResult(FALSE, NoneId, "none", NoneId, FALSE)

(***************************************************************************)
(* State.                                                                  *)
(***************************************************************************)
VARIABLES
    world,            \* the instances that get launched and the configuration
                      \* files the operator may put in place
    lock,             \* the processes holding the flock on the lock file
    pc,               \* per process: where it is in main()
    exitCode,         \* per process: exit status, 0 - 1 while it runs
    config,           \* per process: the configuration loaded in this cycle
    pos,              \* per process: index of the next target of this cycle
    merchant_status,  \* per process: (name, url) -> "absent" | "in" | "out"
    message_ids,      \* per process: url -> AbsentId | NoneId | message id
    sleeping,         \* per process: the interval of the sleep it is in, or 0
    nextId,           \* the identifier the chat gives the next message
    lastCall,         \* what the most recent check of a target in this cycle did
    lastSendRet,      \* (name, url) -> return value of its most recent send
    lastQty,          \* (name, url) -> the stock count it was last seen with
    scen,             \* how far the run has followed the one-target scenario
    fIn,              \* FetchSpec: the call fetch_html(url, retries)
    fOut,             \* FetchSpec: what the call returned
    pIn,              \* ParseSpec: the call parse_stock(html, out_of_stock_text)
    pOut,             \* ParseSpec: what the call returned
    nIn,              \* NotifySpec: the call send_notification(...)
    nOut              \* NotifySpec: what the call did and returned

vars == <<world, lock, pc, exitCode, config, pos, merchant_status, message_ids, sleeping,
          nextId, lastCall, lastSendRet, lastQty, scen, fIn, fOut, pIn, pOut, nIn, nOut>>

mainVars == <<world, lock, pc, exitCode, config, pos, merchant_status, message_ids,
              sleeping, nextId, lastCall, lastSendRet, lastQty, scen>>

Running == {"loop", "cycle", "sleep"}

\* merchant_status = {} and message_ids = {}
EmptyStatus == [k \in Keys |-> "absent"]
EmptyIds == [u \in Urls |-> AbsentId]

NoCall ==
    [proc |-> 0, kind |-> "none", name |-> "", url |-> "", qty |-> NoneQty,
     prev |-> FALSE, arg |-> NoneId, ret |-> NoneId, api |-> "none",
     apiId |-> NoneId, delivered |-> FALSE, raised |-> FALSE, remaining |-> 0]

\* the scenario of one merchant with one target: "start" in a fresh process,
\* then "first", "second", "third" after a cycle with a count > 0, a cycle
\* with count 0 and a cycle with a count > 0; "off" once the run leaves it
ScenOff == [stage |-> "off", first |-> NoneId]
ScenStart == [stage |-> "start", first |-> NoneId]

NoFetch == [script |-> <<>>, retries |-> 0]
NoFetchOut ==
    [done |-> FALSE, html |-> NoneHtml, attempts |-> 0, sleeps |-> 0, raised |-> FALSE]

NoParse == [html |-> <<>>, out_of_stock_text |-> <<>>, raises |-> FALSE]
NoParseOut == [done |-> FALSE, q |-> NoneQty]

NoNotify ==
    [token |-> FALSE, stock_quantity |-> NoneQty, message_id |-> NoneId,
     out |-> "ok", newId |-> NoneId]
NoNotifyOut == [done |-> FALSE, res |-> NotifyResult(FALSE, NoneId, "none", NoneId, FALSE)]

\* no call of parse_stock or send_notification on its own is under way
NoUnitCalls ==
    /\ pIn = NoParse
    /\ pOut = NoParseOut
    /\ nIn = NoNotify
    /\ nOut = NoNotifyOut

\* the state of every process before it is launched, and of the chat
Fresh ==
    /\ lock = {}
    /\ pc = [p \in Procs |-> "init"]
    /\ exitCode = [p \in Procs |-> 0 - 1]
    /\ config = [p \in Procs |-> NoConfig]
    /\ pos = [p \in Procs |-> 0]
    /\ merchant_status = [p \in Procs |-> EmptyStatus]
    /\ message_ids = [p \in Procs |-> EmptyIds]
    /\ sleeping = [p \in Procs |-> 0]
    /\ nextId = 1
    /\ lastCall = NoCall
    /\ lastSendRet = [k \in Keys |-> AbsentId]
    /\ lastQty = [k \in Keys |-> NoneQty]
    /\ scen = ScenOff

\* one instance, any of the configurations
Init ==
    /\ world = [instances |-> {1}, files |-> Configs]
    /\ Fresh
    /\ fIn = NoFetch
    /\ fOut = NoFetchOut
    /\ NoUnitCalls

(***************************************************************************)
(* acquire_lock and the cleanup path of main().                            *)
(***************************************************************************)
\* a lock request that never fails
LockAlwaysAvailable(holders) == TRUE

\* fcntl.flock(lock_file, LOCK_EX | LOCK_NB) succeeds
LockAvailable(holders) == holders = {}

\* a cleanup path that does not unlock
ReleaseLockSkipped(holders, p) == holders

\* fcntl.flock(lock_file, LOCK_UN); lock_file.close()
ReleaseLock(holders, p) == holders \ {p}

\* an exception leaves main() through "finally"; the memory of the process
\* (its dicts, its configuration) ends with it
Crash(p) ==
    /\ lock' = ReleaseLock(lock, p)
    /\ pc' = [pc EXCEPT ![p] = "crashed"]
    /\ exitCode' = [exitCode EXCEPT ![p] = 1]
    /\ config' = [config EXCEPT ![p] = NoConfig]
    /\ pos' = [pos EXCEPT ![p] = 0]
    /\ merchant_status' = [merchant_status EXCEPT ![p] = EmptyStatus]
    /\ message_ids' = [message_ids EXCEPT ![p] = EmptyIds]
    /\ lastSendRet' = [k \in Keys |-> AbsentId]
    /\ lastQty' = [k \in Keys |-> NoneQty]
    /\ scen' = ScenOff
    /\ UNCHANGED sleeping

\* main(): acquire_lock(), then merchant_status = {} and message_ids = {}
Start(p) ==
    /\ p \in world.instances
    /\ pc[p] = "init"
    /\ IF LockAvailable(lock)
       THEN /\ lock' = lock \cup {p}
            /\ pc' = [pc EXCEPT ![p] = "loop"]
            /\ merchant_status' = [merchant_status EXCEPT ![p] = EmptyStatus]
            /\ message_ids' = [message_ids EXCEPT ![p] = EmptyIds]
            /\ lastCall' = NoCall
            /\ lastSendRet' = [k \in Keys |-> AbsentId]
            /\ lastQty' = [k \in Keys |-> NoneQty]
            /\ scen' = ScenStart
            /\ UNCHANGED exitCode
       ELSE \* sys.exit(1), before the try block of main()
            /\ pc' = [pc EXCEPT ![p] = "exited"]
            /\ exitCode' = [exitCode EXCEPT ![p] = 1]
            /\ UNCHANGED <<lock, merchant_status, message_ids, lastCall,
                           lastSendRet, lastQty, scen>>
    /\ UNCHANGED <<world, config, pos, sleeping, nextId, fIn, fOut, pIn, pOut, nIn, nOut>>

\* config = await load_config(); check_interval = config.get(...)
LoadConfig(p) ==
    /\ pc[p] = "loop"
    /\ \E c \in world.files :
        /\ config' = [config EXCEPT ![p] = c]
        /\ pos' = [pos EXCEPT ![p] = 1]
        /\ pc' = [pc EXCEPT ![p] = "cycle"]
        /\ scen' = IF c = CfgSolo THEN scen ELSE ScenOff
    /\ UNCHANGED <<world, lock, exitCode, merchant_status, message_ids, sleeping,
                   nextId, lastCall, lastSendRet, lastQty, fIn, fOut, pIn, pOut, nIn, nOut>>

\* load_config raises (file missing, unreadable or not JSON)
LoadConfigFails(p) ==
    /\ pc[p] = "loop"
    /\ Crash(p)
    /\ UNCHANGED <<world, nextId, lastCall, fIn, fOut, pIn, pOut, nIn, nOut>>

(***************************************************************************)
(* The body of the loop over the targets.                                  *)
(***************************************************************************)
\* merchant_status.get(name, {}).get(url, {'in_stock': False})['in_stock']
PreviousInStock(status, key) == status[key] = "in"

\* message_ids.get(url)
MessageIdsGet(ids, url) == IF ids[url] = AbsentId THEN NoneId ELSE ids[url]

\* a loop body that sends whenever there is stock, whatever the cached status
DecideIgnoresStatus(stock_quantity, previous_in_stock) ==
    IF stock_quantity.kind = "none" THEN "skip"
    ELSE IF GtZero(stock_quantity) THEN "send"
    ELSE IF EqZero(stock_quantity) /\ previous_in_stock THEN "edit"
    ELSE "none"

\* a loop body that takes the failure signal for a count of 0
DecideNoneAsZero(stock_quantity, previous_in_stock) ==
    IF GtZero(stock_quantity) /\ ~previous_in_stock THEN "send"
    ELSE IF (EqZero(stock_quantity) \/ stock_quantity.kind = "none")
            /\ previous_in_stock THEN "edit"
    ELSE IF stock_quantity.kind = "none" THEN "skip"
    ELSE "none"

\* the branch the loop body takes: "skip" (continue), "send", "edit" or "none"
Decide(stock_quantity, previous_in_stock) ==
    IF stock_quantity.kind = "none" THEN "skip"
    ELSE IF GtZero(stock_quantity) /\ ~previous_in_stock THEN "send"
    ELSE IF EqZero(stock_quantity) /\ previous_in_stock THEN "edit"
    ELSE "none"

\* a loop body that assigns the merchant's dict instead of using setdefault
StatusAfterNewDict(status, key, branch) ==
    IF branch \in {"send", "edit"}
    THEN [k \in Keys |-> IF k = key THEN (IF branch = "send" THEN "in" ELSE "out")
                         ELSE IF k[1] = key[1] THEN "absent"
                         ELSE status[k]]
    ELSE status

\* a loop body that does not record the depletion
StatusAfterNoDeplete(status, key, branch) ==
    IF branch = "send" THEN [status EXCEPT ![key] = "in"] ELSE status

\* merchant_status.setdefault(name, {})[url] = {'in_stock': ...}
StatusAfter(status, key, branch) ==
    IF branch = "send" THEN [status EXCEPT ![key] = "in"]
    ELSE IF branch = "edit" THEN [status EXCEPT ![key] = "out"]
    ELSE status

\* a loop body that stores the identifier of a successful send only
IdsAfterOnlySuccess(ids, url, branch, ret) ==
    IF branch = "send" /\ ret # NoneId THEN [ids EXCEPT ![url] = ret] ELSE ids

\* a loop body that keeps the first identifier stored for a URL
IdsAfterKeepFirst(ids, url, branch, ret) ==
    IF branch = "send" /\ ids[url] = AbsentId THEN [ids EXCEPT ![url] = ret] ELSE ids

\* message_ids[url] = message_id
IdsAfter(ids, url, branch, ret) ==
    IF branch = "send" THEN [ids EXCEPT ![url] = ret] ELSE ids

\* the scenario after a check that saw stock_quantity and whose send, if it
\* made one, returned ret
ScenAfter(sc, stock_quantity, ret) ==
    IF sc.stage = "start" /\ GtZero(stock_quantity)
    THEN [stage |-> "first", first |-> ret]
    ELSE IF sc.stage = "first" /\ EqZero(stock_quantity)
    THEN [stage |-> "second", first |-> sc.first]
    ELSE IF sc.stage = "second" /\ GtZero(stock_quantity)
    THEN [stage |-> "third", first |-> sc.first]
    ELSE ScenOff

\* the request outcomes of one fetch_html call of the loop: a success at the
\* first, second and third request, and two ways for all three to fail
FetchKinds ==
    {<<"ok", "ok", "ok">>, <<"status", "ok", "ok">>, <<"exc", "status", "ok">>,
     <<"status", "exc", "status">>, <<"exc", "exc", "exc">>}

\* what the parser is given: a page, or an exception of the parsing library
ParseInputs ==
    {[raises |-> TRUE, page |-> Page5]} \cup {[raises |-> FALSE, page |-> g] : g \in Pages}

\* the rest of the loop body once check_stock has returned stock_quantity:
\* the comparison with the cached status, the notification, the two dicts
Process(p, t, stock_quantity, out) ==
    LET key == <<t.name, t.url>>
        prev == PreviousInStock(merchant_status[p], key)
        branch == Decide(stock_quantity, prev)
        called == branch \in {"send", "edit"}
        arg == IF branch = "edit" THEN MessageIdsGet(message_ids[p], t.url) ELSE NoneId
        r == IF called
             THEN SendNotification(config[p].telegram_token, stock_quantity, arg, out,
                                   nextId)
             ELSE NotifyResult(FALSE, NoneId, "none", NoneId, FALSE)
        sent == r.api = "send" /\ r.delivered
    IN  \* the chat hands out at most MaxMsgs identifiers
        /\ sent => nextId <= MaxMsgs
        /\ nextId' = IF sent THEN nextId + 1 ELSE nextId
        /\ lastCall' =
             [proc |-> p, kind |-> IF called THEN branch ELSE "none",
              name |-> t.name, url |-> t.url, qty |-> stock_quantity, prev |-> prev,
              arg |-> arg, ret |-> r.ret, api |-> r.api, apiId |-> r.apiId,
              delivered |-> r.delivered, raised |-> r.raised,
              remaining |-> Len(Targets(config[p])) - pos[p]]
        /\ IF r.raised
           THEN Crash(p)
           ELSE /\ merchant_status' = [merchant_status EXCEPT
                       ![p] = StatusAfter(merchant_status[p], key, branch)]
                /\ message_ids' = [message_ids EXCEPT
                       ![p] = IdsAfter(message_ids[p], t.url, branch, r.ret)]
                /\ pos' = [pos EXCEPT ![p] = pos[p] + 1]
                /\ lastSendRet' = IF branch = "send"
                                  THEN [lastSendRet EXCEPT ![key] = r.ret]
                                  ELSE lastSendRet
                /\ lastQty' = IF branch = "skip" THEN lastQty
                              ELSE [lastQty EXCEPT ![key] = stock_quantity]
                /\ scen' = ScenAfter(scen, stock_quantity, r.ret)
                /\ UNCHANGED <<lock, pc, exitCode, config, sleeping>>

\* one target of the cycle: the body of "for stock in merchant['stock_urls']"
Check(p) ==
    /\ pc[p] = "cycle"
    /\ pos[p] <= Len(Targets(config[p]))
    /\ LET t == Targets(config[p])[pos[p]] IN
       \E kinds \in FetchKinds, in \in ParseInputs :
           LET script == [i \in 1..DefaultRetries |->
                              [kind |-> kinds[i], text |-> in.page]]
               qty == CheckStock(script, t.out_of_stock_text, in.raises)
               branch == Decide(qty, PreviousInStock(merchant_status[p], <<t.name, t.url>>))
           IN  \* inputs that are not read in this step take one value only
               /\ ~FetchHtml(script, DefaultRetries).html.some => in.raises
               /\ IF branch \in {"send", "edit"}
                  THEN \E out \in NotifyOutcomes : Process(p, t, qty, out)
                  ELSE Process(p, t, qty, "ok")
    /\ UNCHANGED <<world, fIn, fOut, pIn, pOut, nIn, nOut>>

\* await asyncio.sleep(check_interval), after the last target of the cycle
Sleep(p) ==
    /\ pc[p] = "cycle"
    /\ pos[p] > Len(Targets(config[p]))
    /\ pc' = [pc EXCEPT ![p] = "sleep"]
    /\ sleeping' = [sleeping EXCEPT ![p] = CheckInterval(config[p])]
    /\ lastCall' = NoCall
    /\ UNCHANGED <<world, lock, exitCode, config, pos, merchant_status, message_ids,
                   nextId, lastSendRet, lastQty, scen, fIn, fOut, pIn, pOut, nIn, nOut>>

\* the sleep returns: back to "while True"
Wake(p) ==
    /\ pc[p] = "sleep"
    /\ pc' = [pc EXCEPT ![p] = "loop"]
    /\ sleeping' = [sleeping EXCEPT ![p] = 0]
    /\ UNCHANGED <<world, lock, exitCode, config, pos, merchant_status, message_ids,
                   nextId, lastCall, lastSendRet, lastQty, scen, fIn, fOut, pIn, pOut, nIn, nOut>>

Next ==
    \E p \in Procs :
        \/ Start(p)
        \/ LoadConfig(p)
        \/ LoadConfigFails(p)
        \/ Check(p)
        \/ Sleep(p)
        \/ Wake(p)

Spec == Init /\ [][Next]_vars

(***************************************************************************)
(* Two instances launched in any interleaving.                             *)
(***************************************************************************)
LockInit ==
    /\ world = [instances |-> Procs, files |-> {CfgSolo, CfgNoToken}]
    /\ Fresh
    /\ fIn = NoFetch
    /\ fOut = NoFetchOut
    /\ NoUnitCalls

LockSpec == LockInit /\ [][Next]_vars

(***************************************************************************)
(* fetch_html on its own: any script of request outcomes, any retry count. *)
(***************************************************************************)
AttemptOutcomes ==
    {[kind |-> "ok", text |-> Page5], [kind |-> "ok", text |-> PageOut],
     [kind |-> "status", text |-> <<>>], [kind |-> "exc", text |-> <<>>]}

FetchInit ==
    /\ world = [instances |-> {}, files |-> {}]
    /\ Fresh
    /\ fIn \in [script : [1..MaxRetries -> AttemptOutcomes], retries : 0..MaxRetries]
    /\ fOut = NoFetchOut
    /\ NoUnitCalls

\* html = await fetch_html(url, retries)
FetchCall ==
    /\ ~fOut.done
    /\ LET f == FetchHtml(fIn.script, fIn.retries) IN
       fOut' = [done |-> TRUE, html |-> f.html, attempts |-> f.attempts,
                sleeps |-> f.sleeps, raised |-> f.raised]
    /\ UNCHANGED <<fIn, mainVars, pIn, pOut, nIn, nOut>>

FetchNext == FetchCall

FetchSpec == FetchInit /\ [][FetchNext]_vars

(***************************************************************************)
(* parse_stock on its own: any page put together from a few fragments.     *)
(***************************************************************************)
PageParts ==
    {<<"1", " ", "in stock">>, <<"0", "\n", " ", "IN STOCK">>, <<"5">>,
     <<" ", "In Stock">>, <<"in stock">>, <<"<b>">>, <<"quehuo">>,
     <<"Sold", " ", "Out">>}

RECURSIVE PagesOf(_)
\* the pages of at most n fragments
PagesOf(n) ==
    IF n = 0 THEN {<<>>}
    ELSE LET shorter == PagesOf(n - 1)
         IN  shorter \cup {page \o part : page \in shorter, part \in PageParts}

ParseInit ==
    /\ world = [instances |-> {}, files |-> {}]
    /\ Fresh
    /\ fIn = NoFetch
    /\ fOut = NoFetchOut
    /\ pIn \in [html : PagesOf(MaxParts), out_of_stock_text : {DefaultMarker, CustomMarker},
                raises : BOOLEAN]
    /\ pOut = NoParseOut
    /\ nIn = NoNotify
    /\ nOut = NoNotifyOut

\* stock_quantity = await parse_stock(html, out_of_stock_text)
ParseCall ==
    /\ ~pOut.done
    /\ pOut' = [done |-> TRUE, q |-> ParseStock(pIn.html, pIn.out_of_stock_text, pIn.raises)]
    /\ UNCHANGED <<pIn, mainVars, fIn, fOut, nIn, nOut>>

ParseNext == ParseCall

ParseSpec == ParseInit /\ [][ParseNext]_vars

(***************************************************************************)
(* send_notification on its own: any count the loop passes, any previous   *)
(* message id, any outcome of composing and of the chat API call.          *)
(***************************************************************************)
NotifyInit ==
    /\ world = [instances |-> {}, files |-> {}]
    /\ Fresh
    /\ fIn = NoFetch
    /\ fOut = NoFetchOut
    /\ pIn = NoParse
    /\ pOut = NoParseOut
    /\ nIn \in [token : BOOLEAN, stock_quantity : {IntQty(0), IntQty(5), InfQty},
                message_id : NoneId..MaxMsgs, out : NotifyOutcomes, newId : 1..MaxMsgs]
    /\ nOut = NoNotifyOut

\* await send_notification(config, merchant, stock, stock_quantity, message_id)
NotifyCall ==
    /\ ~nOut.done
    /\ nOut' = [done |-> TRUE,
                res |-> SendNotification(nIn.token, nIn.stock_quantity, nIn.message_id,
                                         nIn.out, nIn.newId)]
    /\ UNCHANGED <<nIn, mainVars, fIn, fOut, pIn, pOut>>

NotifyNext == NotifyCall

NotifySpec == NotifyInit /\ [][NotifyNext]_vars

(***************************************************************************)
(* Properties.                                                             *)
(***************************************************************************)
\* the step is the check of the target at pos[p] by process p; lastCall'
\* then tells what the step did
IsCheck(p) ==
    /\ pc[p] = "cycle"
    /\ pos[p] <= Len(Targets(config[p]))
    /\ pos'[p] = pos[p] + 1 \/ pc'[p] = "crashed"

\* the target at pos[p] and its key in merchant_status
TargetAt(p) == Targets(config[p])[pos[p]]
KeyAt(p) == <<TargetAt(p).name, TargetAt(p).url>>

\* C1: the loop asks for a send only in a step where the cached status of
\* the target is not in stock and the parsed count is > 0, for an edit only
\* where the cached status is in stock and the count is 0; in every other
\* step there is no Notifier call and neither dict changes.
C1_CallsOnlyOnTransitions ==
    [][\A p \in Procs : IsCheck(p) =>
        LET cachedIn == merchant_status[p][KeyAt(p)] = "in"
            q == lastCall'.qty
            rising == ~cachedIn /\ GtZero(q)
            falling == cachedIn /\ EqZero(q)
        IN  /\ lastCall'.name = TargetAt(p).name /\ lastCall'.url = TargetAt(p).url
            /\ lastCall'.kind = "send" => rising
            /\ lastCall'.kind = "edit" => falling
            /\ lastCall'.api = "send" => lastCall'.kind = "send"
            /\ lastCall'.api = "edit" => lastCall'.kind = "edit"
            /\ ~rising /\ ~falling =>
                  /\ lastCall'.kind = "none" /\ lastCall'.api = "none"
                  /\ merchant_status'[p] = merchant_status[p]
                  /\ message_ids'[p] = message_ids[p]
                  /\ nextId' = nextId]_vars

\* a no-change step on a target that is in stock, next to a send and an edit
C1_Witness ==
    /\ lastCall.proc # 0
    /\ lastCall.kind = "none"
    /\ lastCall.prev
    /\ GtZero(lastCall.qty)
    /\ nextId > 1

\* C2 (as claimed): every edit the loop asks for carries the message
\* identifier that the most recent send for that same target returned.
C2_EditsOwnMessage ==
    (lastCall.kind = "edit" /\ ~lastCall.raised) =>
        lastCall.arg = lastSendRet[<<lastCall.name, lastCall.url>>]

\* C3: once a cycle has brought the cached status in line with the observed
\* stock, a check that parses the same count as the last one parsed for the
\* target makes no Notifier call, however often it is repeated.
C3_UnchangedCountNoCall ==
    [][\A p \in Procs :
        (IsCheck(p) /\ lastQty[KeyAt(p)].kind # "none"
                    /\ lastCall'.qty = lastQty[KeyAt(p)]) =>
            /\ lastCall'.kind = "none"
            /\ lastCall'.api = "none"
            /\ merchant_status'[p] = merchant_status[p]
            /\ message_ids'[p] = message_ids[p]]_vars

\* the same count was parsed again for a target that had gone out of stock
\* after a send, and nothing was called
C3_Witness ==
    /\ lastCall.proc # 0
    /\ lastCall.kind = "none"
    /\ EqZero(lastCall.qty)
    /\ lastSendRet[<<lastCall.name, lastCall.url>>] # AbsentId
    /\ merchant_status[lastCall.proc][<<lastCall.name, lastCall.url>>] = "out"

\* C4: a check that yields the failure signal makes no Notifier call and
\* leaves merchant_status and message_ids as they were, and the loop goes on.
C4_FailureChangesNothing ==
    [][\A p \in Procs : (IsCheck(p) /\ lastCall'.qty.kind = "none") =>
            /\ lastCall'.kind = "none"
            /\ lastCall'.api = "none"
            /\ merchant_status' = merchant_status
            /\ message_ids' = message_ids
            /\ nextId' = nextId
            /\ pc'[p] = "cycle"]_vars

\* a failed check of a target that is cached as in stock
C4_Witness ==
    /\ lastCall.proc # 0
    /\ lastCall.qty.kind = "none"
    /\ lastCall.prev
    /\ message_ids[lastCall.proc][lastCall.url] > NoneId

\* C5: of two instances at most one holds the lock and runs the loop; the one
\* that fails to acquire it exits at once with status 1, having changed
\* nothing but its own position, and stays exited.
C5_SingleInstance ==
    /\ [](/\ Cardinality(lock) <= 1
          /\ Cardinality({p \in Procs : pc[p] \in Running}) <= 1
          /\ \A p \in Procs : pc[p] = "exited" =>
                /\ exitCode[p] = 1
                /\ p \notin lock
                /\ config[p] = NoConfig
                /\ lastCall.proc # p)
    /\ [][\A p \in Procs :
            /\ (pc[p] = "init" /\ pc'[p] = "exited") =>
                  /\ lock' = lock /\ lock # {}
                  /\ \A q \in Procs \ {p} : pc'[q] = pc[q] /\ pc[q] \in Running
                  /\ UNCHANGED <<config, pos, merchant_status, message_ids,
                                 sleeping, nextId, lastCall>>
            /\ pc[p] = "exited" => pc'[p] = "exited"]_vars

\* the second instance has exited while the first is in the middle of a cycle
C5_Witness ==
    \E p \in Procs, q \in Procs :
        /\ pc[p] = "exited"
        /\ pc[q] = "cycle"
        /\ lastCall.proc = q
        /\ q \in lock

\* C6 (as claimed): no call of send_notification propagates an exception.
C6_NotifierNeverRaises == ~lastCall.raised

\* C7 (as claimed): a cycle whose configuration was loaded is never left
\* before every target of that configuration has been checked.
C7_AllTargetsChecked ==
    \A p \in Procs :
        (lastCall.proc = p /\ pc[p] # "cycle") => lastCall.remaining = 0

\* C8: one merchant, one target, from the empty state: a count > 0 sends and
\* sets in stock; then count 0 edits the identifier that send returned and
\* sets out of stock; then a count > 0 sends again, message_ids[url] becomes
\* what this second send returned, and the status is in stock.  (A chat API
\* call that is made is on that identifier; composition may fail before it.)
C8_Scenario ==
    \A p \in Procs : pc[p] \in Running =>
        LET st == merchant_status[p][<<"A", "u1">>]
            id == message_ids[p]["u1"]
            now == lastCall.proc = p
        IN  /\ scen.stage = "first" =>
                /\ st = "in" /\ id = scen.first
                /\ now => lastCall.kind = "send" /\ lastCall.ret = scen.first
            /\ scen.stage = "second" =>
                /\ st = "out" /\ id = scen.first
                /\ now => /\ lastCall.kind = "edit" /\ lastCall.arg = scen.first
                          /\ lastCall.api # "send"
                          /\ lastCall.api = "edit" => lastCall.apiId = scen.first
            /\ scen.stage = "third" =>
                /\ st = "in"
                /\ now => /\ lastCall.kind = "send" /\ lastCall.api # "edit"
                          /\ id = lastCall.ret
                          /\ lastCall.delivered => lastCall.ret # scen.first

\* the third cycle of the scenario has sent a second message
C8_Witness ==
    /\ scen.stage = "third"
    /\ scen.first # NoneId
    /\ lastCall.kind = "send"
    /\ lastCall.delivered
    /\ message_ids[lastCall.proc]["u1"] = lastCall.ret

\* C9: the lock is held exactly by the instances that are inside the poll
\* loop: from acquisition on, and no longer once an exception has left it.
C9_LockHeldWhileRunning ==
    /\ lock = {p \in Procs : pc[p] \in Running}
    /\ \A p \in Procs : pc[p] = "crashed" => p \notin lock /\ exitCode[p] = 1

\* an instance started after the first one crashed runs the loop
C9_Witness ==
    \E p \in Procs, q \in Procs :
        pc[p] = "crashed" /\ pc[q] = "cycle" /\ lock = {q}

\* C10: fetch_html makes at most retries requests and never raises; it
\* returns the text of the first request with a success status and makes no
\* request after it; it returns None exactly when none of the retries
\* requests succeeded.
C10_FetchContract ==
    fOut.done =>
        LET s == fIn.script
            n == fOut.attempts
        IN  /\ n <= fIn.retries
            /\ ~fOut.raised
            /\ fOut.html.some =>
                  /\ n >= 1
                  /\ s[n].kind = "ok"
                  /\ fOut.html.text = s[n].text
                  /\ \A i \in 1..(n - 1) : s[i].kind # "ok"
            /\ ~fOut.html.some <=> \A i \in 1..fIn.retries : s[i].kind # "ok"
            /\ ~fOut.html.some => n = fIn.retries

\* the third request succeeded after a bad status and a transport exception
C10_Witness ==
    /\ fOut.done
    /\ fOut.html.some
    /\ fOut.attempts = 3
    /\ fIn.script[1].kind = "status"
    /\ fIn.script[2].kind = "exc"

\* the page text has a whole number at i..j-1, whitespace at j..k-1 and
\* "in stock" in any case at k
InStockAt(text, i, j, k) ==
    /\ i < j /\ j < k
    /\ i = 1 \/ text[i - 1] \notin DigitTokens
    /\ \A x \in i..(j - 1) : text[x] \in DigitTokens
    /\ \A x \in j..(k - 1) : text[x] \in SpaceTokens
    /\ text[k] \in InStockTokens

\* where the text has "N in stock", and the counts N found there
OccurrencesIn(text) ==
    {o \in (1..Len(text)) \X (1..Len(text)) \X (1..Len(text)) :
        InStockAt(text, o[1], o[2], o[3])}
CountsIn(text) == {DigitsValue(text, o[1], o[2], 0) : o \in OccurrencesIn(text)}

\* C11 as stated: parse_stock returns N whenever the page text contains
\* "N in stock" (also when the marker is present), 0 when the text has the
\* marker and no "N in stock", and the sentinel that compares as > 0 when it
\* has neither.
C11_ParseAnyCount ==
    pOut.done /\ ~pIn.raises =>
        LET text == GetText(pIn.html)
            marked == IsSubstring(pIn.out_of_stock_text, text)
        IN  /\ \A n \in CountsIn(text) : pOut.q = IntQty(n)
            /\ CountsIn(text) = {} /\ marked => pOut.q = IntQty(0)
            /\ CountsIn(text) = {} /\ ~marked => pOut.q = InfQty /\ GtZero(pOut.q)

\* C11 amended: when the page text contains one or more "N in stock",
\* parse_stock returns the N of the first of them (also when the marker is
\* present); 0 when the text has the marker and no "N in stock"; the
\* sentinel that compares as > 0 when it has neither.
C11_ParseFirstCount ==
    pOut.done /\ ~pIn.raises =>
        LET text == GetText(pIn.html)
            marked == IsSubstring(pIn.out_of_stock_text, text)
            occ == OccurrencesIn(text)
        IN  /\ \A o \in occ :
                  (\A other \in occ : o[1] <= other[1]) =>
                      pOut.q = IntQty(DigitsValue(text, o[1], o[2], 0))
            /\ occ = {} /\ marked => pOut.q = IntQty(0)
            /\ occ = {} /\ ~marked => pOut.q = InfQty /\ GtZero(pOut.q)

\* a page with two different counts and the marker has been parsed
C11_Witness ==
    /\ pOut.done /\ ~pIn.raises
    /\ Cardinality(CountsIn(GetText(pIn.html))) = 2
    /\ IsSubstring(pIn.out_of_stock_text, GetText(pIn.html))
    /\ pOut.q = IntQty(1)

\* C12: a call of send_notification makes at most one chat API call and, when
\* it returns, returns a message id exactly when that call was a send that
\* succeeded. With a count > 0 the call it makes is a send, never an edit,
\* whatever the previous id is, and a successful send returns the new id.
\* With count 0 it never sends and returns None; it edits the previous
\* message when there is one and makes no API call when there is none, and
\* returns None also when the edit fails. (A call whose message cannot be
\* composed makes no API call at all.)
C12_NotifyContract ==
    nOut.done =>
        LET r == nOut.res
            q == nIn.stock_quantity
            composed == nIn.token /\ nIn.out # "compose_exc"
        IN  /\ r.api \in {"none", "send", "edit"}
            /\ r.delivered => r.api # "none"
            /\ ~r.raised => (r.ret # NoneId <=> r.api = "send" /\ r.delivered)
            /\ GtZero(q) =>
                  /\ r.api # "edit"
                  /\ composed => r.api = "send"
                  /\ r.delivered => r.ret = nIn.newId /\ r.apiId = nIn.newId
            /\ EqZero(q) =>
                  /\ r.api # "send"
                  /\ r.ret = NoneId
                  /\ nIn.message_id = NoneId => r.api = "none"
                  /\ nIn.message_id # NoneId /\ composed =>
                        r.api = "edit" /\ r.apiId = nIn.message_id

\* a call with a count > 0 and a previous message id has sent a new message
C12_Witness ==
    /\ nOut.done
    /\ GtZero(nIn.stock_quantity)
    /\ nIn.message_id # NoneId
    /\ nOut.res.api = "send"
    /\ nOut.res.ret = nIn.newId
    /\ nIn.newId # nIn.message_id

\* C13: in a call of fetch_html every failed attempt that is followed by
\* another attempt, whether it failed with a bad status or with a transport
\* exception, is followed by the 2 second wait first: a call that made n
\* attempts has waited at least n - 1 times.
C13_BackoffBeforeEveryRetry ==
    fOut.done => fOut.sleeps >= fOut.attempts - 1

\* C14: a cycle has a fixed order. The configuration is loaded once, at
\* the start of the cycle, and stays the same until the cycle's sleep has
\* ended; the targets are then checked one per step in configuration order,
\* each check complete (fetch, parse, compare, notify, state update) before
\* the next starts; the loop sleeps only after the last target of the last
\* merchant, once, for the check_interval of the configuration loaded in
\* this cycle, 600 when it has none; it does not sleep between targets.
C14_CycleOrder ==
    /\ [](\A p \in Procs :
            LET n == Len(Targets(config[p])) IN
            /\ pc[p] = "cycle" => pos[p] \in 1..(n + 1) /\ sleeping[p] = 0
            /\ pc[p] = "sleep" =>
                  /\ pos[p] = n + 1
                  /\ sleeping[p] = IF config[p].check_interval = AbsentInterval
                                   THEN 600 ELSE config[p].check_interval
            /\ pc[p] # "sleep" => sleeping[p] = 0)
    /\ [][\A p \in Procs :
            /\ config'[p] # config[p] /\ pc'[p] \in Running =>
                  pc[p] = "loop" /\ pc'[p] = "cycle"
            /\ pc[p] = "loop" /\ pc'[p] = "cycle" =>
                  pos'[p] = 1 /\ config'[p] \in world.files
            /\ pc[p] = "loop" => pc'[p] \in {"loop", "cycle", "crashed"}
            /\ pc[p] = "cycle" /\ pc'[p] = "cycle" /\ pos'[p] # pos[p] =>
                  /\ pos[p] <= Len(Targets(config[p]))
                  /\ pos'[p] = pos[p] + 1
                  /\ lastCall'.proc = p
                  /\ lastCall'.name = Targets(config[p])[pos[p]].name
                  /\ lastCall'.url = Targets(config[p])[pos[p]].url
            /\ pc[p] = "cycle" /\ pc'[p] = "cycle" /\ pos'[p] = pos[p] =>
                  merchant_status'[p] = merchant_status[p] /\ message_ids'[p] = message_ids[p]
            /\ pc[p] = "cycle" /\ pc'[p] = "sleep" =>
                  pos[p] = Len(Targets(config[p])) + 1 /\ sleeping[p] = 0
            /\ pc[p] = "cycle" => pc'[p] \in {"cycle", "sleep", "crashed"}
            /\ pc[p] = "sleep" => pc'[p] \in {"sleep", "loop"}]_vars

\* the cycle over two targets with check_interval 60 has reached its sleep
C14_Witness ==
    /\ pc[1] = "sleep"
    /\ config[1] = CfgTwo
    /\ pos[1] = 3
    /\ sleeping[1] = 60
    /\ merchant_status[1][<<"A", "u2">>] = "in"

\* C15: the poll loop does not end on its own. A launched process stops
\* only at startup, when the lock is held, or where load_config fails;
\* no failure in the check of a target (fetch, parse, notification) stops
\* it, so a process that has stopped did not stop in the check of a target.
C15_ChecksNeverStopTheLoop ==
    \A p \in Procs :
        pc[p] = "crashed" => ~(lastCall.proc = p /\ lastCall.kind \in {"send", "edit"})

\* C16: the loop updates its cache whatever the Notifier returns. In a check
\* that sees a count > 0 with the cached status not in stock, the status
\* becomes in stock and message_ids[url] becomes the Notifier's return value,
\* None when the send failed; in a check that sees count 0 with the cached
\* status in stock, the status becomes out of stock also when the edit
\* failed or there was no identifier to edit. Each such check makes one
\* Notifier call, and a check that sees the same stock result again makes
\* none, also after a failed send or edit.
C16_StateUpdatedWhateverReturned ==
    [][\A p \in Procs : IsCheck(p) /\ pc'[p] # "crashed" =>
        LET key == KeyAt(p)
            url == TargetAt(p).url
            cachedIn == merchant_status[p][key] = "in"
            q == lastCall'.qty
        IN  /\ ~cachedIn /\ GtZero(q) =>
                  /\ lastCall'.kind = "send"
                  /\ merchant_status'[p][key] = "in"
                  /\ message_ids'[p][url] = lastCall'.ret
                  /\ ~lastCall'.delivered => message_ids'[p][url] = NoneId
            /\ cachedIn /\ EqZero(q) =>
                  /\ lastCall'.kind = "edit"
                  /\ merchant_status'[p][key] = "out"
                  /\ message_ids'[p][url] = message_ids[p][url]
            /\ cachedIn /\ GtZero(q) =>
                  lastCall'.kind = "none" /\ merchant_status'[p][key] = "in"
            /\ ~cachedIn /\ EqZero(q) =>
                  lastCall'.kind = "none"
                  /\ merchant_status'[p][key] = merchant_status[p][key]]_vars

\* a send failed after an earlier send for the same URL had succeeded: the
\* target is cached as in stock and the stored identifier is None
C16_Witness ==
    /\ lastCall.proc = 1
    /\ lastCall.kind = "send"
    /\ ~lastCall.raised
    /\ lastCall.api = "send"
    /\ ~lastCall.delivered
    /\ nextId > 1
    /\ merchant_status[1][<<lastCall.name, lastCall.url>>] = "in"
    /\ message_ids[1][lastCall.url] = NoneId

\* C17: the check of a target of merchant m with URL u leaves every entry
\* of merchant_status other than (m, u) and every entry of message_ids other
\* than u as it was; no other step of a running process changes either
\* dict, and no entry is ever removed, so the entries of a target that is
\* absent from the configuration keep their values from cycle to cycle.
C17_FrameOfCheck ==
    [][\A p \in Procs : pc[p] \in Running /\ pc'[p] \in Running =>
        IF pc[p] = "cycle" /\ pos'[p] = pos[p] + 1
        THEN /\ \A k \in Keys \ {KeyAt(p)} : merchant_status'[p][k] = merchant_status[p][k]
             /\ \A u \in Urls \ {TargetAt(p).url} : message_ids'[p][u] = message_ids[p][u]
             /\ merchant_status[p][KeyAt(p)] # "absent" =>
                   merchant_status'[p][KeyAt(p)] # "absent"
             /\ message_ids[p][TargetAt(p).url] # AbsentId =>
                   message_ids'[p][TargetAt(p).url] # AbsentId
        ELSE merchant_status'[p] = merchant_status[p] /\ message_ids'[p] = message_ids[p]]_vars

\* target u2 of merchant A was notified in an earlier cycle and is absent
\* from the current configuration; the check of u1 has changed u1's entries
\* and u2's are as they were
C17_Witness ==
    /\ config[1] = CfgSolo
    /\ lastCall.proc = 1
    /\ lastCall.kind = "send"
    /\ lastCall.url = "u1"
    /\ merchant_status[1][<<"A", "u1">>] = "in"
    /\ merchant_status[1][<<"A", "u2">>] = "in"
    /\ message_ids[1]["u2"] = 1
    /\ message_ids[1]["u1"] = 2
====
